---- MODULE Spec2Model ----
(***************************************************************************)
(* gen_prefill.py: a seed ("prefill") file and Cabrillo logs are loaded    *)
(* into callmap, every callsign's observations are reduced by              *)
(* merge_entries_new, and four call-history files are written.             *)
(*                                                                         *)
(* Strings are atomic values here, so the string primitives the program    *)
(* uses (strip, upper, startswith, len, int, ordering) are tables over the *)
(* vocabulary of the input lines below.  A seed-file line is the list of   *)
(* its comma-separated fields, a Cabrillo line the list of its             *)
(* whitespace-separated tokens; no word of the vocabulary holds a comma    *)
(* or white space inside, so "%s,%s,%s,%s" followed by split(',') gives    *)
(* back the same list of fields.                                           *)
(***************************************************************************)
EXTENDS Integers, Sequences, FiniteSets, TLC

VARIABLES
    callmap,        \* callsign -> sequence of observations (gen_prefill.py:9)
    pc,             \* the function __main__ is in, or "done"
    exc,            \* "none", or the exception that ended the run
    preFile,        \* lines of the seed file read so far
    fields,         \* load_pre: the field order in force
    missing_field,  \* load_pre: a directive lacked a sweepstakes field
    total_lines,    \* load_pre: lines read
    valid_lines,    \* load_pre: lines stored
    cabFile,        \* lines of the Cabrillo logs read so far
    log_lines,      \* load_cabrillo: QSO lines unpacked
    tot_qsos,       \* gen_prefill.py:10
    tot_logs,       \* gen_prefill.py:11
    n1mm,           \* lines written to SS_2013_N1MM_prefill.txt
    wintest,        \* lines written to SS_2013_wintest_prefill.xdt
    writelog,       \* lines written to SS_2013_writelog_prefill.adi
    trlog,          \* lines written to SS_2013_trlog_prefill.asc
    entries,        \* merge_entries_new called on its own: the argument
    ret,            \* its result
    perm_ret,       \* its result on a reordering of the same argument
    mpc             \* "idle", "in", "called", "recalled"

vars == <<callmap, pc, exc, preFile, fields, missing_field, total_lines,
          valid_lines, cabFile, log_lines, tot_qsos, tot_logs, n1mm, wintest,
          writelog, trlog, entries, ret, perm_ret, mpc>>

pipeVars == <<callmap, pc, exc, preFile, fields, missing_field, total_lines,
              valid_lines, cabFile, log_lines, tot_qsos, tot_logs, n1mm,
              wintest, writelog, trlog>>

mergeVars == <<entries, ret, perm_ret, mpc>>

\* Bounds of the model.
MaxSeedLines == 2
MaxCabLines == 2
MaxObs == 3

----------------------------------------------------------------------------
\* Python string primitives, as tables over the vocabulary.

\* a or b, for strings: the first operand unless it is empty.
PyOr(a, b) == IF a # "" THEN a ELSE b

\* str.strip(): the seed-file fields written with a leading blank.
Strip(s) ==
    CASE s = " Call" -> "Call"
      [] s = " Exch1" -> "Exch1"
      [] s = " Ck" -> "Ck"
      [] s = " Sect" -> "Sect"
      [] s = " CALL" -> "CALL"
      [] s = " EXCH1" -> "EXCH1"
      [] s = " CK" -> "CK"
      [] s = " SECT" -> "SECT"
      [] OTHER -> s

\* str.upper()
Upper(s) ==
    CASE s = "Call" -> "CALL"
      [] s = "Exch1" -> "EXCH1"
      [] s = "Ck" -> "CK"
      [] s = "Sect" -> "SECT"
      [] s = "!!Order!!" -> "!!ORDER!!"
      [] s = "!!order!!" -> "!!ORDER!!"
      [] s = "wz6z" -> "WZ6Z"
      [] s = "n3en" -> "N3EN"
      [] s = "mdc" -> "MDC"
      [] s = "# NCCC N1MM Logger Sweepstakes Call History File"
           -> "# NCCC N1MM LOGGER SWEEPSTAKES CALL HISTORY FILE"
      [] OTHER -> s

\* item.strip().upper()
StripUpper(s) == Upper(Strip(s))

\* s.startswith(p)
StartsWith(s, p) ==
    CASE p = "!!Order!!" -> s = "!!Order!!"
      [] p = "!!" -> s \in {"!!Order!!", "!!ORDER!!", "!!order!!"}
      [] p = "#" -> s = "# NCCC N1MM Logger Sweepstakes Call History File"
      [] p = "QSO:" -> s = "QSO:"
      [] OTHER -> FALSE

\* len(s)
StrLen(s) ==
    CASE s = "" -> 0
      [] s \in {"A", "B"} -> 1
      [] s \in {"56", "64", "20", "EB", "CA", "-1"} -> 2
      [] s \in {"MDC", "EPA", "ORG", "mdc"} -> 3
      [] s \in {"N3EN", "WZ6Z"} -> 4
      [] s = "HOWARD" -> 6
      [] OTHER -> 0

\* The place of a callsign in sorted(callmap.keys()).
StrRank(s) ==
    CASE s = "" -> 0
      [] s = "N3EN" -> 1
      [] s = "WZ6Z" -> 2
      [] OTHER -> 3

\* The characters of a date token.
Chars(s) ==
    CASE s = "2023-11-04" -> <<"2", "0", "2", "3", "-", "1", "1", "-", "0", "4">>
      [] s = "2024-11-02" -> <<"2", "0", "2", "4", "-", "1", "1", "-", "0", "2">>
      [] s = "20XX-11-02" -> <<"2", "0", "X", "X", "-", "1", "1", "-", "0", "2">>
      [] OTHER -> <<>>

\* s[0:4]
Slice4(cs) == SubSeq(cs, 1, IF Len(cs) < 4 THEN Len(cs) ELSE 4)

Digits == {"0", "1", "2", "3", "4", "5", "6", "7", "8", "9"}

DigitVal(c) ==
    CASE c = "0" -> 0 [] c = "1" -> 1 [] c = "2" -> 2 [] c = "3" -> 3
      [] c = "4" -> 4 [] c = "5" -> 5 [] c = "6" -> 6 [] c = "7" -> 7
      [] c = "8" -> 8 [] c = "9" -> 9 [] OTHER -> 0

RECURSIVE DecimalVal(_)
DecimalVal(cs) ==
    IF cs = <<>> THEN 0
    ELSE 10 * DecimalVal(SubSeq(cs, 1, Len(cs) - 1)) + DigitVal(cs[Len(cs)])

\* int(s) raises ValueError unless s is an optional sign and digits.
IntRaises(cs) ==
    LET body == IF cs # <<>> /\ cs[1] \in {"+", "-"} THEN Tail(cs) ELSE cs
    IN  body = <<>> \/ \E i \in 1..Len(body) : body[i] \notin Digits

IntOf(cs) ==
    IF cs[1] = "-" THEN 0 - DecimalVal(Tail(cs))
    ELSE IF cs[1] = "+" THEN DecimalVal(Tail(cs))
    ELSE DecimalVal(cs)

----------------------------------------------------------------------------
\* The observation store.

EmptyMap == [c \in {} |-> <<>>]

\* callmap[k] = v
Put(cm, k, v) == [c \in DOMAIN cm \cup {k} |-> IF c = k THEN v ELSE cm[c]]

----------------------------------------------------------------------------
\* load_pre

\* N1MM default
DefaultFields ==
    <<"CALL", "NAME", "LOC1", "LOC2", "SECT", "STATE", "CK", "BIRTHDATE",
      "EXCH1", "MISC", "USERTEXT">>

\* field needed for Sweepstakes prefill
sweeps_fields == <<"CALL", "SECT", "CK", "EXCH1">>

\* '!!Order!!' or '!!ORDER!!' or '!!order!!'
OrderPrefix == PyOr(PyOr("!!Order!!", "!!ORDER!!"), "!!order!!")

\* [item.strip().upper() for item in line.split(',')]
StripUpperAll(line) == [i \in 1..Len(line) |-> StripUpper(line[i])]

InSeq(x, s) == \E i \in 1..Len(s) : s[i] = x

\* list.remove(x): the list without the first x
RemoveFirst(s, x) ==
    LET i == CHOOSE j \in 1..Len(s) :
                 s[j] = x /\ \A k \in 1..(j - 1) : s[k] # x
    IN  SubSeq(s, 1, i - 1) \o SubSeq(s, i + 1, Len(s))

\* dict(zip(fields, data)): pairs up to the shorter list, a later pair
\* overriding an earlier one with the same key.
ZipDict(fs, data) ==
    LET n == IF Len(fs) < Len(data) THEN Len(fs) ELSE Len(data)
        at(k) == CHOOSE i \in 1..n :
                     fs[i] = k /\ \A j \in (i + 1)..n : fs[j] # k
    IN  [k \in {fs[i] : i \in 1..n} |-> data[at(k)]]

\* d['YEAR'] = -1 ... del d['CALL']
SeedEntry(d) ==
    [k \in (DOMAIN d \cup {"YEAR"}) \ {"CALL"} |->
        IF k = "YEAR" THEN -1 ELSE d[k]]

\* callmap[call.upper()] = [d]
StoreSeed(cm, call, d) == Put(cm, call, <<d>>)

\* The state load_pre starts in, over the store cm.
PreStart(cm) ==
    [callmap |-> cm, fields |-> DefaultFields, missing_field |-> FALSE,
     total_lines |-> 0, valid_lines |-> 0, exc |-> "none"]

\* One pass of the loop of load_pre over a line.
load_pre_line(st, line) ==
    LET isOrder == StartsWith(line[1], OrderPrefix)
        parsed == StripUpperAll(line)
        removeRaises == isOrder /\ ~InSeq("!!ORDER!!", parsed)
        fields1 == IF isOrder /\ ~removeRaises
                   THEN RemoveFirst(parsed, "!!ORDER!!") ELSE st.fields
        missing1 == st.missing_field
                    \/ (isOrder /\ \E i \in 1..Len(sweeps_fields) :
                                       ~InSeq(sweeps_fields[i], fields1))
        isData == ~(StartsWith(line[1], "#") \/ StartsWith(line[1], "!!")
                    \/ missing1)
        d == ZipDict(fields1, parsed)
        counted == [st EXCEPT !.total_lines = @ + 1]
    IN  IF removeRaises THEN [counted EXCEPT !.exc = "ValueError"]
        ELSE IF ~isData
        THEN [counted EXCEPT !.fields = fields1, !.missing_field = missing1]
        ELSE IF "CALL" \notin DOMAIN d
        THEN [counted EXCEPT !.fields = fields1, !.missing_field = missing1,
                             !.exc = "KeyError"]
        ELSE [counted EXCEPT !.fields = fields1, !.missing_field = missing1,
                             !.callmap = StoreSeed(@, Upper(d["CALL"]),
                                                   SeedEntry(d)),
                             !.valid_lines = @ + 1]

\* load_pre over a whole file, stopping at an exception.
RECURSIVE load_pre_from(_, _)
load_pre_from(st, lines) ==
    IF lines = <<>> \/ st.exc # "none" THEN st
    ELSE load_pre_from(load_pre_line(st, Head(lines)), Tail(lines))

----------------------------------------------------------------------------
\* load_cabrillo

\* "YEAR": int(ymd[0:4])
YearRaises(ymd) == IntRaises(Slice4(Chars(ymd)))

YearOf(ymd) == IntOf(Slice4(Chars(ymd)))

\* buf.startswith("QSO:"), after buf.strip()
IsQso(tokens) == tokens # <<>> /\ StartsWith(tokens[1], "QSO:")

\* The tuple assignment from buf.split()[0:15] raises ValueError on fewer
\* than 15 tokens.
UnpackRaises(tokens) ==
    Len(SubSeq(tokens, 1, IF Len(tokens) < 15 THEN Len(tokens) ELSE 15)) # 15

QsoEntry(tokens) ==
    [SECT |-> tokens[15], CK |-> tokens[14], EXCH1 |-> tokens[13],
     YEAR |-> YearOf(tokens[4])]

\* StoreQso, were the entry assigned as the list instead of appended to it.
StoreQsoReplace(cm, tokens) ==
    LET call == Upper(tokens[11])
    IN  IF YearRaises(tokens[4]) THEN cm
        ELSE Put(cm, call, <<QsoEntry(tokens)>>)

\* if call not in callmap: callmap[call] = [] ; callmap[call].append({...})
\* The new entry is built, and int() called, after the empty list is stored.
StoreQso(cm, tokens) ==
    LET call == Upper(tokens[11])
        cm1 == IF call \in DOMAIN cm THEN cm ELSE Put(cm, call, <<>>)
    IN  IF YearRaises(tokens[4]) THEN cm1
        ELSE Put(cm1, call, Append(cm1[call], QsoEntry(tokens)))

\* Whether the pass of the loop counts the line in log_lines.
QsoCounted(tokens) == IsQso(tokens) /\ ~UnpackRaises(tokens)

----------------------------------------------------------------------------
\* merge_entries_new and pick_most_common

ExchangeKeys == {"SECT", "CK", "EXCH1"}

\* LatestYear, were the first of the sorted years taken.
LatestYearOldest(ents) ==
    CHOOSE y \in {ents[i]["YEAR"] : i \in 1..Len(ents)} :
        \A i \in 1..Len(ents) : ents[i]["YEAR"] >= y

\* sorted([entry["YEAR"] for entry in entries])[-1]
LatestYear(ents) ==
    CHOOSE y \in {ents[i]["YEAR"] : i \in 1..Len(ents)} :
        \A i \in 1..Len(ents) : ents[i]["YEAR"] <= y

\* [entry for entry in entries if entry["YEAR"] == latest_year]
LatestEntries(ents) ==
    LET latest_year == LatestYear(ents)
        keep(e) == e["YEAR"] = latest_year
    IN  SelectSeq(ents, keep)

\* values = [entry[key] for entry in entries]
Values(key, ents) == [i \in 1..Len(ents) |-> ents[i][key]]

\* values_set = set(values)
ValuesSet(key, ents) == {ents[i][key] : i \in 1..Len(ents)}

\* values.count(v)
Count(values, v) == Cardinality({i \in 1..Len(values) : values[i] = v})

\* The orders in which a set can be iterated.  Python fixes none: the order
\* of a set of strings follows their hashes, which change from process to
\* process and, for colliding hashes, with the order of insertion.
SetOrders(S) ==
    {o \in [1..Cardinality(S) -> S] :
        \A i, j \in 1..Cardinality(S) : i # j => o[i] # o[j]}

\* pick_most_common, were min called for max.
pick_least_common(values, o) ==
    LET best == CHOOSE i \in 1..Len(o) :
                    /\ \A j \in 1..Len(o) :
                           Count(values, o[j]) >= Count(values, o[i])
                    /\ \A j \in 1..(i - 1) :
                           Count(values, o[j]) > Count(values, o[i])
    IN  o[best]

\* max(values_set, key=values.count), the set being iterated in order o:
\* the first element whose count no other exceeds.
pick_most_common(values, o) ==
    LET best == CHOOSE i \in 1..Len(o) :
                    /\ \A j \in 1..Len(o) :
                           Count(values, o[j]) <= Count(values, o[i])
                    /\ \A j \in 1..(i - 1) :
                           Count(values, o[j]) < Count(values, o[i])
    IN  o[best]

\* sorted([])[-1] raises IndexError; entry[key] in pick_most_common raises
\* KeyError for an entry without the key.
MergeException(ents) ==
    IF ents = <<>> THEN "IndexError"
    ELSE LET latest_entries == LatestEntries(ents)
         IN  IF /\ Len(latest_entries) >= 3
                /\ \E i \in 1..Len(latest_entries) :
                       ~(ExchangeKeys \subseteq DOMAIN latest_entries[i])
             THEN "KeyError"
             ELSE "none"

\* The iteration orders of the three sets built by one call.
NoOrders == [SECT |-> <<>>, CK |-> <<>>, EXCH1 |-> <<>>]

MergeOrders(ents) ==
    LET latest_entries == LatestEntries(ents)
    IN  IF Len(latest_entries) < 3 THEN {NoOrders}
        ELSE [SECT : SetOrders(ValuesSet("SECT", latest_entries)),
              CK : SetOrders(ValuesSet("CK", latest_entries)),
              EXCH1 : SetOrders(ValuesSet("EXCH1", latest_entries))]

\* merge_entries_new, were it to return latest_entries[-1] without a vote.
merge_entries_last(ents, orders) ==
    LET latest_entries == LatestEntries(ents)
    IN  latest_entries[Len(latest_entries)]

\* merge_entries_new(call, entries), the sets of pick_most_common being
\* iterated in the given orders.
merge_entries_new(ents, orders) ==
    LET latest_entries == LatestEntries(ents)
        first == latest_entries[1]
    IN  IF Len(latest_entries) < 3 THEN first
        ELSE [k \in DOMAIN first \cup ExchangeKeys |->
                 IF k \in ExchangeKeys
                 THEN pick_most_common(Values(k, latest_entries), orders[k])
                 ELSE first[k]]

\* Every record a call can return.
MergeOutcomes(ents) ==
    {merge_entries_new(ents, o) : o \in MergeOrders(ents)}

----------------------------------------------------------------------------
\* The exporters

\* sorted(callmap.keys())
SortedCalls(cm) ==
    CHOOSE s \in [1..Cardinality(DOMAIN cm) -> DOMAIN cm] :
        \A i, j \in 1..Cardinality(DOMAIN cm) :
            i < j => StrRank(s[i]) < StrRank(s[j])

\* What the body of an exporter's loop raises for a callsign: the call of
\* merge_entries_new, or e["EXCH1"], e["CK"], e["SECT"] on its result.
CallException(ents) ==
    LET raised == MergeException(ents)
    IN  IF raised # "none" THEN raised
        ELSE IF \E e \in MergeOutcomes(ents) :
                    ~(ExchangeKeys \subseteq DOMAIN e)
        THEN "KeyError"
        ELSE "none"

\* The callsigns written before the loop ends or raises.
Written(cm) ==
    LET s == SortedCalls(cm)
        bad == {i \in 1..Len(s) : CallException(cm[s[i]]) # "none"}
        n == IF bad = {} THEN Len(s)
             ELSE (CHOOSE i \in bad : \A j \in bad : i <= j) - 1
    IN  SubSeq(s, 1, n)

ExportException(cm) ==
    LET n == Len(Written(cm))
    IN  IF n = Cardinality(DOMAIN cm) THEN "none"
        ELSE CallException(cm[SortedCalls(cm)[n + 1]])

\* One result of merge_entries_new for each callsign written.
Merged(cm) ==
    LET w == Written(cm)
        calls == {w[i] : i \in 1..Len(w)}
        outcomes == [c \in calls |-> MergeOutcomes(cm[c])]
    IN  {m \in [calls -> UNION {outcomes[c] : c \in calls}] :
            \A c \in calls : m[c] \in outcomes[c]}

N1mmHeader ==
    << <<"# NCCC N1MM Logger Sweepstakes Call History File">>,
       <<"!!Order!!", " CALL", " EXCH1", " CK", " SECT">> >>

\* "%s,%s,%s,%s" % (call, e["EXCH1"], e["CK"], e["SECT"])
N1mmLine(call, e) == <<call, e["EXCH1"], e["CK"], e["SECT"]>>

\* "# TITLE %s NCCC data" with the year the program runs in
WintestHeader == << <<"# TITLE", "NCCC data">> >>

\* "%-11s %-2s%-10s %-4s%-4s": the columns, without their padding
WintestLine(call, e) ==
    <<call, PyOr(e["EXCH1"], "-"), call, PyOr(e["CK"], "--"),
      PyOr(e["SECT"], "---")>>

WritelogHeader ==
    << <<"NCCC Writelog Sweepstakes Call History File">>, <<"<EOH>">> >>

WritelogStanza(call, e) ==
    << <<"CALL", StrLen(call), call>>,
       <<"P", StrLen(e["EXCH1"]), e["EXCH1"]>>,
       <<"CK", StrLen(e["CK"]), e["CK"]>>,
       <<"ARRL_SECT", StrLen(e["SECT"]), e["SECT"]>>,
       <<"EOR">> >>

TrlogLine(call, e) ==
    <<call>> \o (IF e["SECT"] # "" THEN <<" =A", e["SECT"]>> ELSE <<>>)
             \o (IF e["CK"] # "" THEN <<" =K", e["CK"]>> ELSE <<>>)
             \o (IF e["EXCH1"] # "" THEN <<" =V", e["EXCH1"]>> ELSE <<>>)

\* The passes of the loop over sorted(callmap.keys()) that write a line:
\* each callsign with its merged entry e, as m gives it.
Body(cm, m) ==
    LET w == Written(cm)
    IN  [i \in 1..Len(w) |-> [call |-> w[i], e |-> m[w[i]]]]

----------------------------------------------------------------------------
\* The input lines the files are made of.

SeedLines ==
    { <<"!!Order!!", " Call", " Exch1", " Ck", " Sect">>,
      <<"!!Order!!", " Call", " Sect">>,
      <<"!!ORDER!!", " CALL", " SECT">>,
      <<"WZ6Z", "HOWARD", "", "", "EB", "CA", "64", "-1", "A">>,
      <<"wz6z", "A", "64", "EB">>,
      <<"">> }

\* QSO: 21039 CW 2012-11-03 2100 KM6I 0001 U 75 SCV N3EN 0001 A 56 MDC
QsoLine(call, ymd, prec, check, sec) ==
    <<"QSO:", "21039", "CW", ymd, "2100", "KM6I", "0001", "U", "75", "SCV",
      call, "0001", prec, check, sec>>

CabLines ==
    { QsoLine("n3en", "2024-11-02", "A", "56", "mdc"),
      QsoLine("WZ6Z", "2023-11-04", "B", "20", "ORG") \o <<"0">>,
      QsoLine("WZ6Z", "20XX-11-02", "B", "20", "ORG"),
      <<"QSO:", "21039", "CW">>,
      <<"END-OF-LOG:">> }

\* The observations merge_entries_new is called on by itself: Cabrillo
\* entries of two years, after at most one seed entry.
ObsWords ==
    { <<"2024-11-02", "A", "56", "MDC">>, <<"2024-11-02", "B", "64", "MDC">>,
      <<"2024-11-02", "A", "64", "EPA">>, <<"2024-11-02", "B", "56", "EPA">>,
      <<"2024-11-02", "A", "56", "ORG">>, <<"2024-11-02", "B", "64", "ORG">>,
      <<"2023-11-04", "A", "56", "MDC">>, <<"2023-11-04", "B", "20", "ORG">> }

CabObs == {QsoEntry(QsoLine("N3EN", w[1], w[2], w[3], w[4])) : w \in ObsWords}

SeedObs ==
    SeedEntry(ZipDict(DefaultFields,
        StripUpperAll(<<"WZ6Z", "HOWARD", "", "", "EB", "CA", "64", "-1", "A">>)))

MergeInputs ==
    {h \o t : h \in {<<>>, <<SeedObs>>},
              t \in UNION {[1..n -> CabObs] : n \in 0..MaxObs}} \ {<<>>}

NoEntry == [k \in {} |-> ""]

----------------------------------------------------------------------------
\* The run of __main__

Init ==
    /\ callmap = EmptyMap
    /\ pc = "load_pre"
    /\ exc = "none"
    /\ preFile = <<>>
    /\ fields = DefaultFields
    /\ missing_field = FALSE
    /\ total_lines = 0
    /\ valid_lines = 0
    /\ cabFile = <<>>
    /\ log_lines = 0
    /\ tot_qsos = 0
    /\ tot_logs = 0
    /\ n1mm = <<>>
    /\ wintest = <<>>
    /\ writelog = <<>>
    /\ trlog = <<>>
    /\ entries = <<>>
    /\ ret = NoEntry
    /\ perm_ret = NoEntry
    /\ mpc = "idle"

\* load_pre reads one more line of the seed file.
LoadPreLine ==
    /\ pc = "load_pre" /\ exc = "none"
    /\ Len(preFile) < MaxSeedLines
    /\ \E line \in SeedLines :
        LET st == load_pre_line(
                      [callmap |-> callmap, fields |-> fields,
                       missing_field |-> missing_field,
                       total_lines |-> total_lines,
                       valid_lines |-> valid_lines, exc |-> "none"], line)
        IN  /\ preFile' = Append(preFile, line)
            /\ callmap' = st.callmap
            /\ fields' = st.fields
            /\ missing_field' = st.missing_field
            /\ total_lines' = st.total_lines
            /\ valid_lines' = st.valid_lines
            /\ exc' = st.exc
    /\ UNCHANGED <<pc, cabFile, log_lines, tot_qsos, tot_logs, n1mm, wintest,
                   writelog, trlog>>
    /\ UNCHANGED mergeVars

\* load_pre returns (or no seed file was named) and the logs are read.
LoadPreReturn ==
    /\ pc = "load_pre" /\ exc = "none"
    /\ pc' = "load_cabrillo"
    /\ UNCHANGED <<callmap, exc, preFile, fields, missing_field, total_lines,
                   valid_lines, cabFile, log_lines, tot_qsos, tot_logs, n1mm,
                   wintest, writelog, trlog>>
    /\ UNCHANGED mergeVars

\* load_cabrillo reads one more line.
LoadCabrilloLine ==
    /\ pc = "load_cabrillo" /\ exc = "none"
    /\ Len(cabFile) < MaxCabLines
    /\ \E tokens \in CabLines :
        /\ cabFile' = Append(cabFile, tokens)
        /\ callmap' = IF QsoCounted(tokens) THEN StoreQso(callmap, tokens)
                      ELSE callmap
        /\ log_lines' = IF QsoCounted(tokens) THEN log_lines + 1
                        ELSE log_lines
    /\ UNCHANGED <<pc, exc, preFile, fields, missing_field, total_lines,
                   valid_lines, tot_qsos, tot_logs, n1mm, wintest, writelog,
                   trlog>>
    /\ UNCHANGED mergeVars

\* load_cabrillo reaches the end of the logs and returns.
LoadCabrilloReturn ==
    /\ pc = "load_cabrillo" /\ exc = "none"
    /\ tot_qsos' = tot_qsos + log_lines
    /\ tot_logs' = IF log_lines > 0 THEN tot_logs + 1 ELSE tot_logs
    /\ pc' = "write_n1mm"
    /\ UNCHANGED <<callmap, exc, preFile, fields, missing_field, total_lines,
                   valid_lines, cabFile, log_lines, n1mm, wintest, writelog,
                   trlog>>
    /\ UNCHANGED mergeVars

\* An exporter's way through __main__: on to the next one, or stopped by
\* the exception its loop raises.
Export(at, next) ==
    /\ pc = at /\ exc = "none"
    /\ LET raised == ExportException(callmap)
       IN  /\ exc' = raised
           /\ pc' = IF raised = "none" THEN next ELSE at

write_n1mm ==
    /\ Export("write_n1mm", "write_wintest")
    /\ \E m \in Merged(callmap) :
        LET b == Body(callmap, m)
        IN  n1mm' = N1mmHeader
                    \o [i \in 1..Len(b) |-> N1mmLine(b[i].call, b[i].e)]
    /\ UNCHANGED <<callmap, preFile, fields, missing_field, total_lines,
                   valid_lines, cabFile, log_lines, tot_qsos, tot_logs,
                   wintest, writelog, trlog>>
    /\ UNCHANGED mergeVars

write_wintest ==
    /\ Export("write_wintest", "write_writelog")
    /\ \E m \in Merged(callmap) :
        LET b == Body(callmap, m)
        IN  wintest' = WintestHeader
                       \o [i \in 1..Len(b) |-> WintestLine(b[i].call, b[i].e)]
    /\ UNCHANGED <<callmap, preFile, fields, missing_field, total_lines,
                   valid_lines, cabFile, log_lines, tot_qsos, tot_logs, n1mm,
                   writelog, trlog>>
    /\ UNCHANGED mergeVars

write_writelog ==
    /\ Export("write_writelog", "write_trlog")
    /\ \E m \in Merged(callmap) :
        LET b == Body(callmap, m)
        IN  writelog' = WritelogHeader
                        \o [i \in 1..Len(b) |->
                               WritelogStanza(b[i].call, b[i].e)]
    /\ UNCHANGED <<callmap, preFile, fields, missing_field, total_lines,
                   valid_lines, cabFile, log_lines, tot_qsos, tot_logs, n1mm,
                   wintest, trlog>>
    /\ UNCHANGED mergeVars

write_trlog ==
    /\ Export("write_trlog", "done")
    /\ \E m \in Merged(callmap) :
        LET b == Body(callmap, m)
        IN  trlog' = [i \in 1..Len(b) |-> TrlogLine(b[i].call, b[i].e)]
    /\ UNCHANGED <<callmap, preFile, fields, missing_field, total_lines,
                   valid_lines, cabFile, log_lines, tot_qsos, tot_logs, n1mm,
                   wintest, writelog>>
    /\ UNCHANGED mergeVars

Next ==
    \/ LoadPreLine
    \/ LoadPreReturn
    \/ LoadCabrilloLine
    \/ LoadCabrilloReturn
    \/ write_n1mm
    \/ write_wintest
    \/ write_writelog
    \/ write_trlog

Spec == Init /\ [][Next]_vars

----------------------------------------------------------------------------
\* merge_entries_new called on its own

InitMerge ==
    /\ callmap = EmptyMap
    /\ pc = "done"
    /\ exc = "none"
    /\ preFile = <<>>
    /\ fields = DefaultFields
    /\ missing_field = FALSE
    /\ total_lines = 0
    /\ valid_lines = 0
    /\ cabFile = <<>>
    /\ log_lines = 0
    /\ tot_qsos = 0
    /\ tot_logs = 0
    /\ n1mm = <<>>
    /\ wintest = <<>>
    /\ writelog = <<>>
    /\ trlog = <<>>
    /\ entries \in MergeInputs
    /\ ret = NoEntry
    /\ perm_ret = NoEntry
    /\ mpc = "in"

\* The same entries, those at i and j having changed places.
Exchanged(ents, i, j) ==
    [k \in 1..Len(ents) |->
        IF k = i THEN ents[j] ELSE IF k = j THEN ents[i] ELSE ents[k]]

\* merge_entries_new(call, entries)
CallMerge ==
    /\ mpc = "in"
    /\ \E e \in MergeOutcomes(entries) : ret' = e
    /\ mpc' = "called"
    /\ UNCHANGED <<entries, perm_ret>>
    /\ UNCHANGED pipeVars

\* merge_entries_new(call, entries) with two of the entries exchanged
CallMergeReordered ==
    /\ mpc = "called"
    /\ \E i, j \in 1..Len(entries) :
        /\ i < j
        /\ \E e \in MergeOutcomes(Exchanged(entries, i, j)) : perm_ret' = e
    /\ mpc' = "recalled"
    /\ UNCHANGED <<entries, ret>>
    /\ UNCHANGED pipeVars

NextMerge ==
    \/ CallMerge
    \/ CallMergeReordered

SpecMerge == InitMerge /\ [][NextMerge]_vars

----------------------------------------------------------------------------
\* Claims about the store and the run (Spec)

\* C1: every callsign in callmap maps to a non-empty sequence of
\* observations, so no exporter calls merge_entries_new with an empty one.
C1_NoEmptySequence == \A c \in DOMAIN callmap : callmap[c] # <<>>

\* The seed-file lines the loop of load_pre stored an observation for: data
\* lines read while no directive it took up had left out a needed field.
C6_Directives(i) ==
    {j \in 1..i : StartsWith(preFile[j][1], "!!Order!!")}

C6_FieldsAt(i) ==
    IF C6_Directives(i) = {} THEN DefaultFields
    ELSE LET last == CHOOSE j \in C6_Directives(i) :
                         \A k \in C6_Directives(i) : k <= j
         IN  RemoveFirst(StripUpperAll(preFile[last]), "!!ORDER!!")

C6_RejectedAt(i) ==
    \E j \in C6_Directives(i) :
        \E f \in {"CALL", "SECT", "CK", "EXCH1"} : ~InSeq(f, C6_FieldsAt(j))

C6_SeedLines ==
    {i \in 1..Len(preFile) :
        /\ ~StartsWith(preFile[i][1], "#")
        /\ ~StartsWith(preFile[i][1], "!!")
        /\ ~C6_RejectedAt(i)}

C6_SeedDict(i) == ZipDict(C6_FieldsAt(i), StripUpperAll(preFile[i]))

C6_SeedPart(c) ==
    LET mine == {i \in C6_SeedLines : Upper(C6_SeedDict(i)["CALL"]) = c}
    IN  IF mine = {} THEN <<>>
        ELSE LET last == CHOOSE i \in mine : \A j \in mine : j <= i
             IN  <<SeedEntry(C6_SeedDict(last))>>

\* The valid QSO lines: 15 tokens or more after "QSO:" and a date that
\* starts with a number.
C6_QsoLines ==
    {i \in 1..Len(cabFile) :
        /\ IsQso(cabFile[i])
        /\ Len(cabFile[i]) >= 15
        /\ ~YearRaises(cabFile[i][4])}

C6_CabPart(c) ==
    LET mine == {i \in C6_QsoLines : Upper(cabFile[i][11]) = c}
        nth(k) == CHOOSE i \in mine :
                      Cardinality({j \in mine : j <= i}) = k
    IN  [k \in 1..Cardinality(mine) |->
            [SECT |-> cabFile[nth(k)][15], CK |-> cabFile[nth(k)][14],
             EXCH1 |-> cabFile[nth(k)][13],
             YEAR |-> YearOf(cabFile[nth(k)][4])]]

C6_Named ==
    {Upper(C6_SeedDict(i)["CALL"]) : i \in C6_SeedLines}
        \cup {Upper(cabFile[i][11]) : i \in C6_QsoLines}

C7_NeverAborts == exc = "none"

\* C8: a seed data line whose number of fields differs from the number of
\* columns in force is skipped: the store and the count of valid lines stay
\* as they were.  (A line of the 9 columns the default layout is documented
\* with is taken to fit the default order of 11.)
C8_MismatchSkipped ==
    [][(/\ pc = "load_pre"
        /\ preFile' # preFile
        /\ ~StartsWith(preFile'[Len(preFile')][1], "#")
        /\ ~StartsWith(preFile'[Len(preFile')][1], "!!")
        /\ Len(preFile'[Len(preFile')]) # Len(fields)
        /\ ~(fields = DefaultFields /\ Len(preFile'[Len(preFile')]) = 9))
       => (callmap' = callmap /\ valid_lines' = valid_lines)]_vars

\* C9: a seed file whose first line is an order directive, in any case of
\* the keyword, that leaves out CALL, SECT, CK or EXCH1 puts no seed
\* observation in the store.
C9_BadDirectiveLoadsNothing ==
    (/\ pc # "load_pre"
     /\ preFile # <<>>
     /\ Upper(preFile[1][1]) = "!!ORDER!!"
     /\ \E f \in {"CALL", "SECT", "CK", "EXCH1"} :
            \A i \in 2..Len(preFile[1]) : StripUpper(preFile[1][i]) # f)
    => \A c \in DOMAIN callmap :
           \A i \in 1..Len(callmap[c]) : callmap[c][i]["YEAR"] # -1

\* C10: the lines write_n1mm wrote, loaded by load_pre into an empty store,
\* give the callsigns of callmap and no other, each with the EXCH1, CK and
\* SECT merge_entries_new returns for it.
C10_RoundTrip ==
    pc \in {"write_wintest", "write_writelog", "write_trlog", "done"} =>
        LET back == load_pre_from(PreStart(EmptyMap), n1mm)
        IN  /\ back.exc = "none"
            /\ DOMAIN back.callmap = DOMAIN callmap
            /\ \A c \in DOMAIN callmap :
                   \E e \in MergeOutcomes(callmap[c]) :
                       \A k \in ExchangeKeys : back.callmap[c][1][k] = e[k]

----------------------------------------------------------------------------
\* Claims about merge_entries_new (SpecMerge)

\* The places of the observations of the greatest year in the argument.
LatestPlaces ==
    {i \in 1..Len(entries) :
        \A j \in 1..Len(entries) : entries[j]["YEAR"] <= entries[i]["YEAR"]}

FirstLatest == CHOOSE i \in LatestPlaces : \A j \in LatestPlaces : i <= j

\* How many observations of the greatest year give field k the value v.
Votes(k, v) == Cardinality({i \in LatestPlaces : entries[i][k] = v})

Voted(k) == {entries[i][k] : i \in LatestPlaces}

\* What a result r must be for C2.
FromLatestYear(r) ==
    /\ \E i \in LatestPlaces : r["YEAR"] = entries[i]["YEAR"]
    /\ \A k \in ExchangeKeys : r[k] \in Voted(k)

\* C2: the record returned has the greatest YEAR of the argument, and each
\* of its SECT, CK and EXCH1 is the value of some observation of that year;
\* none comes only from an older observation.
C2_LatestYearOnly ==
    /\ mpc \in {"called", "recalled"} => FromLatestYear(ret)
    /\ mpc = "recalled" => FromLatestYear(perm_ret)

\* C2 happens: a seed observation, a Cabrillo observation of 2023 and one
\* of 2024 with a SECT of its own; the result is the last's.
C2_Witness ==
    /\ mpc = "called"
    /\ Len(entries) = 3
    /\ entries[1]["YEAR"] = -1
    /\ entries[2]["YEAR"] = 2023
    /\ entries[3]["YEAR"] = 2024
    /\ entries[3]["SECT"] \notin {entries[1]["SECT"], entries[2]["SECT"]}
    /\ entries[3]["EXCH1"] # entries[1]["EXCH1"]
    /\ ret = entries[3]

\* C3: with 3 or more observations of the greatest year, a field's value
\* with more votes than every other is the one returned, in whatever order
\* the observations come.
C3_Plurality ==
    (mpc \in {"called", "recalled"} /\ Cardinality(LatestPlaces) >= 3) =>
        \A k \in ExchangeKeys : \A v \in Voted(k) :
            (\A u \in Voted(k) \ {v} : Votes(k, u) < Votes(k, v)) =>
                /\ ret[k] = v
                /\ mpc = "recalled" => perm_ret[k] = v

\* C3 happens: three observations of the greatest year, the first of them
\* outvoted two to one in SECT, and both calls return the others' value.
C3_Witness ==
    /\ mpc = "recalled"
    /\ Cardinality(LatestPlaces) = 3
    /\ \E v \in Voted("SECT") :
        /\ Votes("SECT", v) = 2
        /\ entries[FirstLatest]["SECT"] # v
        /\ ret["SECT"] = v
        /\ perm_ret["SECT"] = v

\* C4: with 3 or more observations of the greatest year and a field's
\* highest count shared by two or more values, the value returned is the
\* same for any two orders of the same observations.
C4_TieStable ==
    (mpc = "recalled" /\ Cardinality(LatestPlaces) >= 3) =>
        \A k \in ExchangeKeys :
            (\E u, v \in Voted(k) :
                /\ u # v
                /\ Votes(k, u) = Votes(k, v)
                /\ \A x \in Voted(k) : Votes(k, x) <= Votes(k, v))
            => ret[k] = perm_ret[k]

\* C5: with fewer than 3 observations of the greatest year the result is
\* the first of them, every field as it was.
C5_FirstLatestUnchanged ==
    (mpc \in {"called", "recalled"} /\ Cardinality(LatestPlaces) < 3) =>
        ret = entries[FirstLatest]

\* C5 happens: two observations of the greatest year that differ in all
\* three fields, after an older one, and the first of the two is returned.
C5_Witness ==
    /\ mpc = "called"
    /\ Cardinality(LatestPlaces) = 2
    /\ FirstLatest > 1
    /\ \E j \in LatestPlaces :
           \A k \in ExchangeKeys : entries[j][k] # entries[FirstLatest][k]
    /\ ret = entries[FirstLatest]

====
